---- MODULE Spec2Model ----
(***************************************************************************)
(* valhalla_run_route: model of src/valhalla_run_route.cc.                 *)
(*                                                                         *)
(* main() is a single sequential program.  Its position is pc; the labels  *)
(* are the source lines at which the next step starts.  The external       *)
(* collaborators (location search, path algorithms, connectivity map,      *)
(* directions builder) are modelled by nondeterministic results.           *)
(***************************************************************************)
EXTENDS Integers, Sequences, FiniteSets, TLC

(* ------------------------------ bounds -------------------------------- *)
MaxLocations  == 3      \* locations.size() ranges over 2..MaxLocations
MaxIterations == 1      \* --multi-run N ranges over 0..MaxIterations
NumKeys       == 2      \* option names 1..NumKeys of a costing subtree
NumValues     == 2      \* option values 1..NumValues

\* Graph edge ids and connectivity colors are opaque identifiers.
EdgeIds == {"e1", "e2"}
Colors  == {"c1", "c2"}
Keys    == 1..NumKeys
Values  == 1..NumValues

(* --------------------------- property trees --------------------------- *)
\* A costing subtree: present or absent (get_child_optional), and its
\* children in order, each a <<name, value>> pair.
AbsentTree       == [present |-> FALSE, fields |-> <<>>]
Tree(fs)         == [present |-> TRUE, fields |-> fs]

\* The costing names main() hands to get_costing, and the index of the
\* cost model of each in mode_costing[] (its TravelMode).
Costings   == {"auto", "pedestrian", "bicycle", "transit"}
Routetypes == {"auto", "pedestrian", "multimodal"}

\* Sequences of <<name, value>> pairs with pairwise distinct names: the
\* children a JSON object yields.
RECURSIVE FieldSeqs(_)
FieldSeqs(len) ==
  IF len = 0 THEN {<<>>}
  ELSE LET shorter == FieldSeqs(len - 1)
       IN  shorter \cup
           { Append(s, <<k, v>>) :
               s \in {t \in shorter : Len(t) = len - 1},
               k \in Keys, v \in Values }
AllFieldSeqs ==
  { s \in FieldSeqs(NumKeys) :
      \A a, b \in 1..Len(s) : a # b => s[a][1] # s[b][1] }

HasKey(fs, k) == \E a \in 1..Len(fs) : fs[a][1] = k
FirstIndex(fs, k) == CHOOSE a \in 1..Len(fs) :
                        fs[a][1] = k /\ \A b \in 1..(a - 1) : fs[b][1] # k
ValueOf(fs, k) == fs[FirstIndex(fs, k)][2]

\* ptree::put_child(name, value): replace the first child of that name in
\* place, otherwise append a new child.
put_child_append(fs, k, v) == Append(fs, <<k, v>>)  \* never replaces
put_child(fs, k, v) ==
  IF HasKey(fs, k)
  THEN [fs EXCEPT ![FirstIndex(fs, k)] = <<k, v>>]
  ELSE Append(fs, <<k, v>>)

\* The loop of get_costing over the children of the request subtree.
RECURSIVE MergeRequest(_, _, _)
MergeRequest(fs, req, a) ==
  IF a > Len(req) THEN fs
  ELSE MergeRequest(put_child(fs, req[a][1], req[a][2]), req, a + 1)

(* ----------------------------- cost model ----------------------------- *)
\* What factory.Create returns: a cost model holding its options and its
\* mutable relaxation state.  relax_factor/expansion_within_factor are the
\* arguments RelaxHierarchyLimits received (0 while never called).
NoCost == [created |-> FALSE, options |-> <<>>, relaxed |-> FALSE,
           relax_factor |-> 0, expansion_within_factor |-> 0,
           highway_transitions_disabled |-> FALSE]
Create(costing, options) ==
  [created |-> TRUE, options |-> options, relaxed |-> FALSE,
   relax_factor |-> 0, expansion_within_factor |-> 0,
   highway_transitions_disabled |-> FALSE]

\* get_costing: the result and the configuration tree after the call
\* (config_costing refers into config, so put_child writes into it).
get_costingUnchecked(config, request, costing) ==
  LET merged == IF request[costing].present
                THEN MergeRequest(config[costing].fields,
                                  request[costing].fields, 1)
                ELSE config[costing].fields
  IN  [threw |-> FALSE,
       config |-> [config EXCEPT ![costing] = Tree(merged)],
       cost |-> Create(costing, merged)]
get_costing(config, request, costing) ==
  IF ~config[costing].present
  THEN [threw |-> TRUE, config |-> config, cost |-> NoCost]
  ELSE LET merged == IF request[costing].present
                     THEN MergeRequest(config[costing].fields,
                                       request[costing].fields, 1)
                     ELSE config[costing].fields
       IN  [threw |-> FALSE,
            config |-> [config EXCEPT ![costing] = Tree(merged)],
            cost |-> Create(costing, merged)]

(* ------------------------------- state -------------------------------- *)
VARIABLES
  \* command line and request (fixed once parsed)
  routetype,        \* lower-cased route type
  connectivity,     \* --connectivity given
  multi_run,        \* --multi-run given
  iterations,       \* its value N
  nloc,             \* locations.size()
  allowMultiPass,   \* what cost->AllowMultiPass() answers for the active cost
  json_ptree,       \* request: costing_options.<costing> subtrees
  base,             \* the configuration as read at line 538 (history)
  \* main()
  pc,               \* source line of the next step, or "done"
  pt,               \* configuration: costing_options.<costing> subtrees
  mode_costing,     \* cost model per travel mode
  mode,             \* active travel mode (named by its costing)
  costing_idx,      \* next get_costing call of lines 585-600
  path_location,    \* candidate edge ids per resolved location
  colors,           \* connectivity map: colors of each location (line 621)
  color_counts,     \* color -> count, lines 623-629
  tile,             \* graph tile once the reader has fetched it: the edge
                    \* ids whose directed edge is flagged unreachable
  leg,              \* i + 1 of the loop at line 655
  strategy,         \* pathalgorithm: "astar", "bd", "mm" ("none" before)
  engine,           \* per path algorithm: holds state of an earlier search
  trip_path,        \* main's trip_path: 0 empty, else the leg it was built for
  data,             \* PathStatistics
  log,              \* records written by data.log()
  exit,             \* "running", "success", "failure", "abort", "crash"
  \* PathTest()
  pathedges,        \* TRUE iff pathedges is non-empty
  built,            \* local trip_path of PathTest: 0, or the leg once built
  it,               \* loop counter of line 139
  \* history
  ev,               \* calls made by the PathTest of the current leg, in order
  attempts,         \* results of its GetBestPath calls of lines 88, 98, 110
  before,           \* data.passes and the active cost model when it started
  outcomes,         \* how the PathTest of each finished leg ended
  returned          \* GetBestPath calls of lines 88, 98, 110 that returned,
                    \* over all legs

inputs  == <<routetype, connectivity, multi_run, iterations, nloc,
             allowMultiPass, json_ptree, base>>
costvars == <<pt, mode_costing, mode, costing_idx>>
located == <<path_location, colors, color_counts>>
local   == <<pathedges, built, it>>
vars    == <<inputs, pc, costvars, located, tile, leg, strategy, engine, trip_path,
             data, log, exit, local, ev, attempts, before, outcomes, returned>>

Algorithms == {"astar", "bd", "mm"}

\* lines 585-600: the get_costing calls of a route type, in order
RequiredCostings(rt) ==
  IF rt = "multimodal" THEN <<"auto", "pedestrian", "bicycle", "transit">>
  ELSE <<rt>>
\* line 592 (multimodal starts as pedestrian) and line 598 (travelmode())
ActiveMode(rt) == IF rt = "multimodal" THEN "pedestrian" ELSE rt

\* PathStatistics constructor, lines 54-57
NewPathStatistics ==
  [success |-> "false", passes |-> 0, trip_time |-> 0, trip_dist |-> 0,
   manuevers |-> 0]

(* --------------------------- initial states --------------------------- *)
DefaultFields  == <<<<1, 1>>, <<2, 1>>>>
OverrideFields == <<<<2, 2>>>>

\* The command line, the number of locations and the kind of cost model.
Arguments ==
  /\ connectivity \in BOOLEAN
  /\ multi_run \in BOOLEAN
  /\ iterations \in (IF multi_run THEN 0..MaxIterations ELSE {0})
  /\ nloc \in 2..MaxLocations
  /\ allowMultiPass \in BOOLEAN

\* main() before line 585
Start ==
  /\ base = pt
  /\ pc = "l585"
  /\ mode_costing = [c \in Costings |-> NoCost]
  /\ mode = "none"
  /\ costing_idx = 1
  /\ path_location = <<>>
  /\ colors = <<>>
  /\ color_counts = <<>>
  /\ tile = [fetched |-> FALSE, unreachable |-> {}]
  /\ leg = 1
  /\ strategy = "none"
  /\ engine = [a \in Algorithms |-> FALSE]
  /\ trip_path = 0
  /\ data = NewPathStatistics
  /\ log = <<>>
  /\ exit = "running"
  /\ pathedges = FALSE
  /\ built = 0
  /\ it = 0
  /\ ev = <<>>
  /\ attempts = <<>>
  /\ before = [passes |-> 0, cost |-> NoCost]
  /\ outcomes = <<>>
  /\ returned = 0

\* A whole run: every costing configured, or one required costing missing;
\* the request overrides one option of "auto".
Init ==
  /\ routetype \in Routetypes
  /\ \E missing \in {"none"} \cup
                    {RequiredCostings(routetype)[a] :
                        a \in 1..Len(RequiredCostings(routetype))} :
       pt = [c \in Costings |->
               IF c = missing THEN AbsentTree ELSE Tree(DefaultFields)]
  /\ json_ptree = [c \in Costings |->
                     IF c = "auto" THEN Tree(OverrideFields) ELSE AbsentTree]
  /\ Arguments
  /\ Start

(* ------------------------- main: preparation -------------------------- *)
\* Lines 585-600, one get_costing call.  A missing costing throws a
\* runtime_error that nothing catches: the process is terminated.
GetCosting ==
  /\ pc = "l585"
  /\ LET required == RequiredCostings(routetype)
         r == get_costing(pt, json_ptree, required[costing_idx])
     IN  IF r.threw
         THEN /\ pc' = "done"
              /\ exit' = "abort"
              /\ UNCHANGED costvars
         ELSE /\ pt' = r.config
              /\ mode_costing' =
                   [mode_costing EXCEPT ![required[costing_idx]] = r.cost]
              /\ costing_idx' = costing_idx + 1
              /\ IF costing_idx = Len(required)
                 THEN pc' = "l608" /\ mode' = ActiveMode(routetype)
                 ELSE pc' = "l585" /\ mode' = mode
              /\ exit' = exit
  /\ UNCHANGED <<inputs, before, located, tile, leg, strategy, engine, trip_path, data,
                 log, local, ev, attempts, outcomes, returned>>

\* The candidate edge sets loki's Search can return for a location.
CandidateSets == (SUBSET EdgeIds) \ {{}}

\* Lines 608-616, one iteration: Search returns the candidates of the next
\* location, or throws and the run ends with fail_invalid_origin.
LocateExitsZero ==
  /\ pc = "l608"
  /\ \/ /\ \E edges \in CandidateSets :
             path_location' = Append(path_location, edges)
        /\ pc' = IF Len(path_location) + 1 = nloc THEN "l618" ELSE "l608"
        /\ UNCHANGED <<data, log, exit>>
     \/ /\ data' = [data EXCEPT !.success = "fail_invalid_origin"]
        /\ log' = Append(log, data')
        /\ exit' = "success"
        /\ pc' = "done"
        /\ UNCHANGED path_location
  /\ UNCHANGED <<inputs, before, costvars, colors, color_counts, tile, leg, strategy,
                 engine, trip_path, local, ev, attempts, outcomes, returned>>
Locate ==
  /\ pc = "l608"
  /\ \/ /\ \E edges \in CandidateSets :
             path_location' = Append(path_location, edges)
        /\ pc' = IF Len(path_location) + 1 = nloc THEN "l618" ELSE "l608"
        /\ UNCHANGED <<data, log, exit>>
     \/ /\ data' = [data EXCEPT !.success = "fail_invalid_origin"]
        /\ log' = Append(log, data')
        /\ exit' = "failure"
        /\ pc' = "done"
        /\ UNCHANGED path_location
  /\ UNCHANGED <<inputs, before, costvars, colors, color_counts, tile, leg, strategy,
                 engine, trip_path, local, ev, attempts, outcomes, returned>>

\* Lines 622-629: get_colors is asked for path_location.back() only; it
\* returns a set, so each of its colors is entered once with count 1.
CountColors(cs, n) == [c \in cs[n] |-> 1]
\* Lines 632-638
connectedAlways(counts, n) == TRUE
connected(counts, n) == \E c \in DOMAIN counts : counts[c] = n

\* Lines 617-645.  The connectivity map is built here; it assigns every
\* location the colors of its candidates.
ConnectivityCheck ==
  /\ pc = "l618"
  /\ IF ~connectivity
     THEN /\ pc' = "l655"
          /\ UNCHANGED <<colors, color_counts, data, log, exit>>
     ELSE \E cs \in [1..nloc -> (SUBSET Colors) \ {{}}] :
            /\ colors' = cs
            /\ color_counts' = CountColors(cs, nloc)
            /\ IF connected(color_counts', nloc)
               THEN /\ pc' = "l655"
                    /\ UNCHANGED <<data, log, exit>>
               ELSE /\ data' = [data EXCEPT !.success = "fail_no_connectivity"]
                    /\ log' = Append(log, data')
                    /\ exit' = "failure"
                    /\ pc' = "done"
  /\ UNCHANGED <<inputs, before, costvars, path_location, tile, leg, strategy, engine,
                 trip_path, local, ev, attempts, outcomes, returned>>

\* Lines 657-672: the path algorithm of a leg.
ChooseAlgorithmSameSets(rt, origin_edges, dest_edges) ==
  IF rt = "multimodal" THEN "mm"
  ELSE IF rt = "pedestrian" THEN "bd"
  ELSE IF origin_edges = dest_edges THEN "astar" ELSE "bd"
ChooseAlgorithmNoPedestrian(rt, origin_edges, dest_edges) ==
  IF rt = "multimodal" THEN "mm"
  ELSE IF \E edge1 \in origin_edges : \E edge2 \in dest_edges : edge1 = edge2
       THEN "astar"
       ELSE "bd"
ChooseAlgorithm(rt, origin_edges, dest_edges) ==
  IF rt = "multimodal" THEN "mm"
  ELSE IF rt = "pedestrian" THEN "bd"
  ELSE IF \E edge1 \in origin_edges : \E edge2 \in dest_edges : edge1 = edge2
       THEN "astar"
       ELSE "bd"

\* Lines 656-673 and the entry into PathTest (lines 85-87) for leg k, the
\* statistics being d.
EnterLeg(k, d) ==
  /\ leg' = k
  /\ strategy' = ChooseAlgorithm(routetype, path_location[k],
                                 path_location[k + 1])
  /\ before' = [passes |-> d.passes, cost |-> mode_costing[mode]]
  /\ ev' = <<>>
  /\ attempts' = <<>>
  /\ pc' = "l88"

\* Line 655, i = 0: the first leg (there are at least 2 locations).
SelectAlgorithm ==
  /\ pc = "l655"
  /\ EnterLeg(1, data)
  /\ UNCHANGED <<inputs, costvars, located, tile, engine, trip_path, data,
                 log, exit, local, outcomes, returned>>

(* ------------------------------ PathTest ------------------------------ *)
\* What a GetBestPath call can do: return a path, return no path, throw a
\* std::runtime_error, or throw anything else.
GetBestPathResults == {"path", "empty", "runtime_error", "exception"}
Returned(r) == r \in {"path", "empty"}

Ev(op, res) == [op |-> op, res |-> res]

\* The path algorithm's working state: GetBestPath leaves it used, Clear
\* empties it.
Used(e, alg)  == [e EXCEPT ![alg] = TRUE]
ClearSkipped(e, alg) == e
Clear(e, alg) == [e EXCEPT ![alg] = FALSE]

\* line 60
incPassesTwice(d) == [d EXCEPT !.passes = @ + 2]
incPasses(d) == [d EXCEPT !.passes = @ + 1]

\* DynamicCost::RelaxHierarchyLimits(factor, expansion_within_factor)
RelaxHierarchyLimits(cost, factor, expansion) ==
  [cost EXCEPT !.relaxed = TRUE, !.relax_factor = factor,
               !.expansion_within_factor = expansion]
\* DynamicCost::DisableHighwayTransitions()
DisableHighwayTransitions(cost) ==
  [cost EXCEPT !.highway_transitions_disabled = TRUE]

\* line 673
using_astar == strategy = "astar"

\* What no step of PathTest changes.
PathTestFrame ==
  UNCHANGED <<inputs, before, pt, mode, costing_idx, located, tile, leg,
              strategy, log>>

\* PathTest is left: its locals are gone.
LocalsGone == pathedges' = FALSE /\ built' = 0 /\ it' = 0

\* return of PathTest and the assignment of line 677
Return(tp, how) ==
  /\ trip_path' = tp
  /\ outcomes' = Append(outcomes, how)
  /\ pc' = "l685"
  /\ LocalsGone

\* An exception leaving GetBestPath unwinds PathTest.  main catches a
\* std::runtime_error at line 680 and goes on at line 685 with trip_path
\* as it was; anything else is not caught and ends the process.
Thrown(r) ==
  /\ engine' = Used(engine, strategy)
  /\ ev' = Append(ev, Ev("GetBestPath", r))
  /\ attempts' = IF pc = "l139" THEN attempts ELSE Append(attempts, r)
  /\ IF r = "runtime_error"
     THEN /\ pc' = "l685"
          /\ outcomes' = Append(outcomes, "Threw")
          /\ exit' = exit
     ELSE /\ pc' = "done"
          /\ exit' = "abort"
          /\ outcomes' = outcomes
  /\ LocalsGone
  /\ UNCHANGED <<trip_path, data, mode_costing, returned>>

\* The steps of PathTest are its GetBestPath calls, each with the code that
\* follows it up to the next call or the return.  The code between two
\* calls is given the path algorithm e and the history h as the call left
\* them.

\* Lines 117-137 and, without --multi-run, line 149: build the trip path,
\* clear the path algorithm.
FormTripPathNoClear(e, h) ==
  /\ engine' = e
  /\ ev' = h \o <<Ev("Build", "")>>
  /\ mode_costing' = mode_costing
  /\ IF multi_run
     THEN /\ pc' = "l139"
          /\ pathedges' = TRUE
          /\ built' = leg
          /\ it' = 0
          /\ UNCHANGED <<trip_path, outcomes>>
     ELSE Return(leg, "Done")
FormTripPath(e, h) ==
  /\ engine' = Clear(e, strategy)
  /\ ev' = h \o <<Ev("Build", ""), Ev("Clear", "")>>
  /\ mode_costing' = mode_costing
  /\ IF multi_run
     THEN /\ pc' = "l139"
          /\ pathedges' = TRUE
          /\ built' = leg
          /\ it' = 0
          /\ UNCHANGED <<trip_path, outcomes>>
     ELSE Return(leg, "Done")

\* Lines 93-97
RelaxAndClear(e, h) ==
  /\ engine' = Clear(e, strategy)
  /\ LET relax_factor == IF using_astar THEN 16 ELSE 8   \* computed, not passed
         expansion_within_factor == IF using_astar THEN 4 ELSE 2
         \* line 97 passes using_astar (true is 1, false is 0) as the factor
         factor == IF using_astar THEN 1 ELSE 0
     IN  mode_costing' =
           [mode_costing EXCEPT ![mode] =
              RelaxHierarchyLimits(@, factor, expansion_within_factor)]
  /\ ev' = h \o <<Ev("Clear", ""), Ev("RelaxHierarchyLimits", "")>>
  /\ pc' = "l98"
  /\ pathedges' = FALSE
  /\ UNCHANGED <<built, it, trip_path, outcomes>>

\* Line 104: "Third pass only if using astar"
ThirdPassAlways  == TRUE
ThirdPassNever   == FALSE
ThirdPassAllowed == using_astar

\* Lines 102-109, pathedges being empty
ThirdPass(e, h) ==
  IF ~ThirdPassAllowed
  THEN /\ Return(0, "Failed")
       /\ engine' = e
       /\ ev' = h
       /\ mode_costing' = mode_costing
  ELSE /\ mode_costing' =
            [mode_costing EXCEPT ![mode] = DisableHighwayTransitions(@)]
       /\ engine' = Clear(e, strategy)
       /\ ev' = h \o <<Ev("DisableHighwayTransitions", ""), Ev("Clear", "")>>
       /\ pc' = "l110"
       /\ pathedges' = FALSE
       /\ UNCHANGED <<built, it, trip_path, outcomes>>

\* the call left the path algorithm used and was counted (lines 89-90)
Counted(r) == ev \o <<Ev("GetBestPath", r), Ev("incPasses", "")>>

\* Lines 88-97, or 88-92 and 102-109, or 88-91 and 117-137
Attempt1 ==
  /\ pc = "l88"
  /\ \E r \in GetBestPathResults :
       IF Returned(r)
       THEN /\ data' = incPasses(data)
            /\ attempts' = Append(attempts, r)
            /\ returned' = returned + 1
            /\ exit' = exit
            /\ IF r = "path"
               THEN FormTripPath(Used(engine, strategy), Counted(r))
               ELSE IF allowMultiPass
               THEN RelaxAndClear(Used(engine, strategy), Counted(r))
               ELSE ThirdPass(Used(engine, strategy), Counted(r))
       ELSE Thrown(r)
  /\ PathTestFrame

\* Lines 98-109, or 98-102 and 117-137
Attempt2 ==
  /\ pc = "l98"
  /\ \E r \in GetBestPathResults :
       IF Returned(r)
       THEN /\ data' = incPasses(data)
            /\ attempts' = Append(attempts, r)
            /\ returned' = returned + 1
            /\ exit' = exit
            /\ IF r = "path"
               THEN FormTripPath(Used(engine, strategy), Counted(r))
               ELSE ThirdPass(Used(engine, strategy), Counted(r))
       ELSE Thrown(r)
  /\ PathTestFrame

\* Lines 110-115 with a retry in place of the return of line 114.
Attempt3Retry ==
  /\ pc = "l110"
  /\ \E r \in GetBestPathResults :
       IF Returned(r)
       THEN /\ data' = incPasses(data)
            /\ attempts' = Append(attempts, r)
            /\ returned' = returned + 1
            /\ exit' = exit
            /\ IF r = "path"
               THEN FormTripPath(Used(engine, strategy), Counted(r))
               ELSE /\ engine' = Clear(engine, strategy)
                    /\ ev' = Counted(r) \o <<Ev("Clear", "")>>
                    /\ UNCHANGED <<pc, mode_costing, local, trip_path,
                                   outcomes>>
       ELSE Thrown(r)
  /\ PathTestFrame

\* Lines 110-115, and 117-137 when a path was found
Attempt3 ==
  /\ pc = "l110"
  /\ \E r \in GetBestPathResults :
       IF Returned(r)
       THEN /\ data' = incPasses(data)
            /\ attempts' = Append(attempts, r)
            /\ returned' = returned + 1
            /\ exit' = exit
            /\ IF r = "path"
               THEN FormTripPath(Used(engine, strategy), Counted(r))
               ELSE /\ Return(0, "Failed")
                    /\ engine' = Used(engine, strategy)
                    /\ ev' = Counted(r)
                    /\ mode_costing' = mode_costing
       ELSE Thrown(r)
  /\ PathTestFrame

\* Lines 139-145, one iteration of the loop; after the last one lines
\* 146-149 (iterations is not 0 here).
RepeatRun ==
  /\ pc = "l139"
  /\ it < iterations
  /\ \E r \in GetBestPathResults :
       IF Returned(r)
       THEN /\ engine' = Clear(Used(engine, strategy), strategy)
            /\ ev' = ev \o <<Ev("GetBestPath", r), Ev("Clear", "")>>
            /\ IF it + 1 < iterations
               THEN /\ pc' = "l139"
                    /\ it' = it + 1
                    /\ pathedges' = (r = "path")
                    /\ UNCHANGED <<built, trip_path, outcomes>>
               ELSE Return(built, "Done")
            /\ UNCHANGED <<data, exit, mode_costing, attempts, returned>>
       ELSE Thrown(r)
  /\ PathTestFrame

\* Lines 146-149 after a loop of no iteration: totalms / iterations is a
\* division by zero, on which the process is killed or goes on with some
\* value for the log line.
AverageRuntime ==
  /\ pc = "l139"
  /\ it >= iterations
  /\ \/ /\ Return(built, "Done")
        /\ exit' = exit
     \/ /\ pc' = "done"
        /\ exit' = "crash"
        /\ UNCHANGED <<trip_path, outcomes, local>>
  /\ UNCHANGED <<engine, ev, attempts, data, mode_costing, returned>>
  /\ PathTestFrame

(* --------------------------- main: after a leg ------------------------ *)
\* The summary of the directions built for a trip path (lines 345-347):
\* some positive figures, here the number of the leg the path belongs to.
Summary(tp) == [time |-> tp, length |-> tp, maneuvers |-> tp]

\* Lines 345-347 and 698
DirectionsTest(d, tp) ==
  [d EXCEPT !.trip_time = Summary(tp).time,
            !.trip_dist = Summary(tp).length,
            !.manuevers = Summary(tp).maneuvers,
            !.success = "success"]

\* Lines 700-737
ClassifySwapped(origin_edges, dest_edges, unreachable) ==
  LET unreachable_origin == \E e \in dest_edges : e \in unreachable
      unreachable_dest   == \E e \in origin_edges : e \in unreachable
  IN  IF unreachable_origin /\ unreachable_dest
        THEN "fail_unreachable_locations"
      ELSE IF unreachable_origin THEN "fail_unreachable_origin"
      ELSE IF unreachable_dest THEN "fail_unreachable_dest"
      ELSE "fail_no_route"
Classify(origin_edges, dest_edges, unreachable) ==
  LET unreachable_origin == \E e \in origin_edges : e \in unreachable
      unreachable_dest   == \E e \in dest_edges : e \in unreachable
  IN  IF unreachable_origin /\ unreachable_dest
        THEN "fail_unreachable_locations"
      ELSE IF unreachable_origin THEN "fail_unreachable_origin"
      ELSE IF unreachable_dest THEN "fail_unreachable_dest"
      ELSE "fail_no_route"

\* Lines 741-755, the statistics being d.
Finish(d) ==
  /\ log' = Append(log, d)
  /\ exit' = "success"
  /\ pc' = "done"

\* Lines 684-739, then i++ and either the next leg (lines 655-673) or the
\* end of the run (lines 741-755).  The failure branch reads the
\* unreachable flags from the graph tile, which the reader fetches on the
\* first GetGraphTile and keeps.
AfterLeg ==
  /\ pc = "l685"
  /\ IF trip_path > 0
     THEN /\ data' = DirectionsTest(data, trip_path)
          /\ tile' = tile
     ELSE /\ IF tile.fetched
             THEN tile' = tile
             ELSE \E u \in SUBSET EdgeIds :
                    tile' = [fetched |-> TRUE, unreachable |-> u]
          /\ data' = [data EXCEPT !.success =
                        Classify(path_location[leg], path_location[leg + 1],
                                 tile'.unreachable)]
  /\ IF leg + 1 < nloc
     THEN /\ EnterLeg(leg + 1, data')
          /\ UNCHANGED <<log, exit>>
     ELSE /\ Finish(data')
          /\ leg' = leg + 1
          /\ ev' = <<>>
          /\ attempts' = <<>>
          /\ before' = [passes |-> 0, cost |-> NoCost]
          /\ strategy' = strategy
  /\ UNCHANGED <<inputs, costvars, located, engine, trip_path, local,
                 outcomes, returned>>

Next ==
  \/ GetCosting
  \/ Locate
  \/ ConnectivityCheck
  \/ SelectAlgorithm
  \/ Attempt1
  \/ Attempt2
  \/ Attempt3
  \/ RepeatRun
  \/ AverageRuntime
  \/ AfterLeg

Spec == Init /\ [][Next]_vars

(* ------------------- get_costing on arbitrary subtrees ---------------- *)
\* The costing stage alone, for every base subtree and every request
\* subtree of the requested costing (each possibly absent).
InitCosting ==
  /\ routetype = "auto"
  /\ \E t \in {AbsentTree} \cup {Tree(fs) : fs \in AllFieldSeqs} :
       pt = [c \in Costings |-> IF c = "auto" THEN t ELSE AbsentTree]
  /\ \E t \in {AbsentTree} \cup {Tree(fs) : fs \in AllFieldSeqs} :
       json_ptree = [c \in Costings |-> IF c = "auto" THEN t ELSE AbsentTree]
  /\ connectivity = FALSE
  /\ multi_run = FALSE
  /\ iterations = 0
  /\ nloc = 2
  /\ allowMultiPass = TRUE
  /\ Start

NextCosting == GetCosting

SpecCosting == InitCosting /\ [][NextCosting]_vars

(* ------------------------- reading the history ------------------------ *)
Calls(op)  == {k \in 1..Len(ev) : ev[k].op = op}
Called(op) == Calls(op) # {}
NumAttempts == Len(attempts)
AttemptEmpty(n) == NumAttempts >= n /\ attempts[n] = "empty"
AllSearchesEmpty ==
  \A k \in Calls("GetBestPath") : ev[k].res = "empty"
LegPasses == data.passes - before.passes

InPathTest == pc \in {"l88", "l98", "l110", "l139"}
\* PathTest has returned or thrown and line 685 is next
LegEnded   == pc = "l685"
LegFailed  == LegEnded /\ trip_path = 0 /\ outcomes[Len(outcomes)] = "Failed"
SharedEdge == path_location[leg] \cap path_location[leg + 1] # {}

(* -------------------------------- claims ------------------------------ *)
\* C1: a leg whose first search returns no path while the cost model does
\* not allow multiple passes fails at once: one search, one pass, no change
\* to the cost model, whatever the path algorithm.
C1_FailsAfterFirstAttempt ==
  (LegEnded /\ AttemptEmpty(1) /\ ~allowMultiPass)
    => /\ NumAttempts = 1
       /\ LegPasses = 1
       /\ mode_costing[mode] = before.cost
       /\ LegFailed

\* C2: a leg makes at most 3 counted search attempts and counts at most 3
\* passes; after the third attempt no attempt is left to make.
C2_AtMostThreeAttempts ==
  (InPathTest \/ LegEnded)
    => /\ NumAttempts <= 3
       /\ LegPasses <= 3
       /\ (NumAttempts = 3 => pc \in {"l139", "l685"})
C2_Witness == LegEnded /\ NumAttempts = 3 /\ LegPasses = 3

\* C3: every search of a leg after its first is made on a cleared path
\* algorithm: the last GetBestPath-or-Clear call before it is a Clear.
C3_ClearBeforeLaterSearches ==
  /\ (pc \in {"l98", "l110"} \/ (pc = "l139" /\ it < iterations))
       => ~engine[strategy]
  /\ \A k \in 2..Len(ev) :
       ev[k].op = "GetBestPath" =>
         \E c \in 1..(k - 1) :
           /\ ev[c].op = "Clear"
           /\ \A j \in (c + 1)..(k - 1) : ev[j].op # "GetBestPath"
C3_Witness ==
  LegEnded /\ NumAttempts = 3 /\ Cardinality(Calls("GetBestPath")) = 4

\* C4: when the first two attempts return no path and the path algorithm
\* is not astar, there is no third attempt and no DisableHighwayTransitions;
\* the leg fails with 2 passes.
C4_NoThirdAttemptUnlessDirect ==
  ((InPathTest \/ LegEnded) /\ strategy # "astar"
     /\ AttemptEmpty(1) /\ AttemptEmpty(2))
    => /\ NumAttempts = 2
       /\ ~Called("DisableHighwayTransitions")
       /\ mode_costing[mode].highway_transitions_disabled
            = before.cost.highway_transitions_disabled
       /\ LegPasses = 2
       /\ LegFailed
C4_Witness ==
  LegFailed /\ AttemptEmpty(1) /\ AttemptEmpty(2) /\ strategy = "bd"

\* C5 as stated: a leg whose candidates share an edge id and whose every
\* search returns no path makes exactly 3 attempts before it fails.
C5_SharedEdgeThreeAttempts ==
  (LegEnded /\ SharedEdge /\ AllSearchesEmpty)
    => strategy = "astar" /\ NumAttempts = 3 /\ LegFailed
\* C5 amended: the same for a route type other than pedestrian and
\* multimodal and a cost model that allows multiple passes.
C5_DirectEligibleThreeAttempts ==
  (LegEnded /\ SharedEdge /\ AllSearchesEmpty /\ allowMultiPass
     /\ routetype \notin {"pedestrian", "multimodal"})
    => strategy = "astar" /\ NumAttempts = 3 /\ LegPasses = 3 /\ LegFailed
C5_Witness ==
  LegFailed /\ SharedEdge /\ AllSearchesEmpty /\ allowMultiPass
    /\ routetype = "auto" /\ NumAttempts = 3

\* C6 as stated: candidates that share an edge id give astar for every
\* route type.
C6_SharedEdgeAlwaysDirect ==
  (InPathTest /\ SharedEdge) => strategy = "astar"
\* C6 amended: they give astar for every route type other than
\* multimodal and pedestrian.
C6_SharedEdgeDirectUnlessPedestrian ==
  (InPathTest /\ SharedEdge /\ routetype \notin {"multimodal", "pedestrian"})
    => strategy = "astar"
C6_Witness ==
  /\ InPathTest /\ SharedEdge /\ routetype = "auto" /\ strategy = "astar"
  /\ path_location[leg] # path_location[leg + 1]

\* The decision rule, in its order: multimodal, pedestrian, shared edge.
DecisionRule(rt, origin_edges, dest_edges) ==
  CASE rt = "multimodal" -> "mm"
    [] rt # "multimodal" /\ rt = "pedestrian" -> "bd"
    [] rt \notin {"multimodal", "pedestrian"}
         /\ origin_edges \cap dest_edges # {} -> "astar"
    [] OTHER -> "bd"
\* C7: the path algorithm of every leg is the ordered rule applied to the
\* route type and the two candidate sets of that leg, whatever happened in
\* earlier legs.
C7_StrategyIsDecisionRule ==
  (InPathTest \/ LegEnded)
    => strategy = DecisionRule(routetype, path_location[leg],
                               path_location[leg + 1])
C7_Witness ==
  /\ InPathTest /\ leg = 2 /\ routetype = "pedestrian" /\ SharedEdge
  /\ strategy = "bd" /\ outcomes = <<"Failed">> /\ data.passes = 2

\* The number of locations that have color c, and whether some color is
\* common to all locations.
Membership(c) == Cardinality({w \in 1..nloc : c \in colors[w]})
MutuallyConnected == \E c \in Colors : Membership(c) = nloc
\* C8: with the preflight on, the count of a color is the number of
\* locations that have it, so locations that all share a color are judged
\* connected and the run does not end with fail_no_connectivity.
C8_CountsAreMemberships ==
  (connectivity /\ colors # <<>>)
    => /\ \A c \in DOMAIN color_counts : color_counts[c] = Membership(c)
       /\ (MutuallyConnected => data.success # "fail_no_connectivity")

\* C9: with the preflight on and locations that share no color, no search
\* is made: the run ends at once with one fail_no_connectivity record
\* whose pass count is 0.
C9_NoSearchWithoutConnectivity ==
  (connectivity /\ colors # <<>> /\ ~MutuallyConnected)
    => /\ pc = "done"
       /\ exit = "failure"
       /\ log = <<[NewPathStatistics EXCEPT !.success = "fail_no_connectivity"]>>
       /\ data.passes = 0
       /\ ev = <<>> /\ strategy = "none" /\ leg = 1
       /\ \A a \in Algorithms : ~engine[a]
C9_Witness ==
  /\ connectivity /\ colors # <<>> /\ ~MutuallyConnected
  /\ Len(log) = 1 /\ log[1].success = "fail_no_connectivity"

\* m is b overlaid with r, field by field.
Overlay(b, r, m) ==
  /\ \A k \in Keys :
       /\ Cardinality({a \in 1..Len(m) : m[a][1] = k}) <= 1
       /\ HasKey(m, k) <=> (HasKey(b, k) \/ HasKey(r, k))
       /\ HasKey(r, k) => ValueOf(m, k) = ValueOf(r, k)
       /\ (HasKey(b, k) /\ ~HasKey(r, k)) => ValueOf(m, k) = ValueOf(b, k)
\* C10: the options the cost model is created with are the base subtree
\* overlaid with the request subtree: a request field replaces the base
\* field of its name, other base fields keep their value, other request
\* fields are added, and without a request subtree they are the base
\* subtree.
C10_MergedIsOverlay ==
  mode_costing["auto"].created
    => /\ Overlay(base["auto"].fields, json_ptree["auto"].fields,
                  mode_costing["auto"].options)
       /\ (~json_ptree["auto"].present
             => mode_costing["auto"].options = base["auto"].fields)
C10_Witness ==
  /\ mode_costing["auto"].created
  /\ base["auto"].fields = <<<<1, 1>>, <<2, 1>>>>
  /\ json_ptree["auto"].fields = <<<<2, 2>>>>
  /\ mode_costing["auto"].options = <<<<1, 1>>, <<2, 2>>>>

\* C11: get_costing changes neither the configuration tree nor the request
\* tree: after every call both hold the values they held before it, also
\* when the request overrides an option.
C11_TreesUnchanged ==
  costing_idx > 1 => pt = base

\* The required costings that the configuration lacks.
MissingCostings ==
  {c \in Costings :
     /\ \E a \in 1..Len(RequiredCostings(routetype)) :
          RequiredCostings(routetype)[a] = c
     /\ ~base[c].present}
\* C12: when the configuration has no subtree for a required costing, the
\* run ends in the costing stage by the error get_costing raises: no
\* location is resolved, no connectivity check and no search is made, no
\* record is written, and no cost model is created for the missing costing.
C12_MissingCostingAborts ==
  MissingCostings # {}
    => /\ pc \in {"l585", "done"}
       /\ (pc = "done" => exit = "abort")
       /\ (pc = "l585" =>
             \E a \in costing_idx..Len(RequiredCostings(routetype)) :
               RequiredCostings(routetype)[a] \in MissingCostings)
       /\ path_location = <<>> /\ colors = <<>> /\ color_counts = <<>>
       /\ strategy = "none" /\ ev = <<>> /\ attempts = <<>>
       /\ data = NewPathStatistics /\ log = <<>>
       /\ \A c \in MissingCostings : ~mode_costing[c].created
C12_Witness ==
  /\ routetype = "multimodal" /\ MissingCostings = {"bicycle"}
  /\ pc = "done" /\ exit = "abort"
  /\ mode_costing["auto"].created /\ mode_costing["pedestrian"].created

\* C13: the step that follows a leg whose PathTest ended Failed records
\* the outcome the unreachable flags of the leg's two candidate sets give
\* (both, origin only, destination only, none) and makes no search: the
\* pass count, the path algorithms and the cost models are left alone.
C13_FailedLegClassifiedByFlags ==
  [][ (pc = "l685" /\ outcomes[Len(outcomes)] = "Failed") =>
        LET flagged == tile'.unreachable
            uo == path_location[leg] \cap flagged # {}
            ud == path_location[leg + 1] \cap flagged # {}
        IN  /\ tile'.fetched /\ (tile.fetched => tile' = tile)
            /\ data'.success =
                 CASE uo /\ ud  -> "fail_unreachable_locations"
                   [] uo /\ ~ud -> "fail_unreachable_origin"
                   [] ~uo /\ ud -> "fail_unreachable_dest"
                   [] OTHER     -> "fail_no_route"
            /\ data'.passes = data.passes
            /\ engine' = engine /\ mode_costing' = mode_costing
    ]_vars
C13_Witness ==
  /\ leg = 2 /\ pc \in {"l88", "done"} /\ outcomes = <<"Failed">>
  /\ data.success = "fail_unreachable_origin"
  /\ path_location[1] \cap tile.unreachable # {}
  /\ path_location[2] \cap tile.unreachable = {}

\* C14: every record written with a failure outcome has trip time, trip
\* distance and maneuver count 0, whatever the earlier legs did.
C14_FailureRecordsZero ==
  \A k \in 1..Len(log) :
    log[k].success # "success"
      => /\ log[k].trip_time = 0
         /\ log[k].trip_dist = 0
         /\ log[k].manuevers = 0

\* C15: the repeat runs change nothing but the average: from the point
\* where the trip path is built, PathTest with --multi-run N ends as it
\* ends without it, for every N >= 0: it returns that trip path (Done),
\* with the pass count, the statistics and the cost models as they were.
C15_RepeatRunsTransparent ==
  [][ pc = "l139" =>
        /\ data' = data
        /\ mode_costing' = mode_costing
        /\ \/ pc' = "l139"
           \/ /\ pc' = "l685"
              /\ trip_path' = built
              /\ outcomes' = Append(outcomes, "Done")
    ]_vars

\* C16: when the first attempt of a leg starts, the active cost model is
\* at baseline: hierarchy limits not relaxed, highway transitions not
\* disabled, whatever the earlier legs did.
C16_BaselineAtLegStart ==
  pc = "l88"
    => /\ ~mode_costing[mode].relaxed
       /\ ~mode_costing[mode].highway_transitions_disabled

\* The outcome values a record may carry.
OutcomeValues ==
  {"success", "fail_invalid_origin", "fail_no_connectivity",
   "fail_unreachable_origin", "fail_unreachable_dest",
   "fail_unreachable_locations", "fail_no_route"}
\* C17: a run that got its cost models ends with exactly one record, which
\* carries one of the seven outcome values, whichever stage failed and
\* whatever a search call raised; no run writes a second record.
C17_ExactlyOneRecord ==
  /\ Len(log) <= 1
  /\ (pc = "done" /\ mode # "none")
       => Len(log) = 1 /\ log[1].success \in OutcomeValues

\* C18: the second attempt runs on a cost model whose RelaxHierarchyLimits
\* received relaxation factor 16 and expansion-within factor 4 under
\* astar, 8 and 2 under the other path algorithms.
C18_RelaxFactorsHanded ==
  pc = "l98"
    => /\ mode_costing[mode].relax_factor = (IF using_astar THEN 16 ELSE 8)
       /\ mode_costing[mode].expansion_within_factor
            = (IF using_astar THEN 4 ELSE 2)

\* C19: in a leg, DisableHighwayTransitions is only called after
\* RelaxHierarchyLimits: the third attempt is reached through the second.
C19_DisableOnlyAfterRelax ==
  \A k \in Calls("DisableHighwayTransitions") :
    \E j \in 1..(k - 1) : ev[j].op = "RelaxHierarchyLimits"

\* The attempts of the current leg that returned.
ReturnedAttempts == {k \in 1..Len(attempts) : Returned(attempts[k])}
\* C20: the pass count is the number of GetBestPath calls of the attempt
\* sites that returned, over all legs: each adds one whether or not it
\* found a path, the repeat runs and all other steps add nothing, a leg
\* that finds its path on attempt k adds k, and the record written carries
\* that count.
C20_PassesCountReturnedSearches ==
  /\ data.passes = returned
  /\ (InPathTest \/ LegEnded)
       => /\ LegPasses = Cardinality(ReturnedAttempts)
          /\ (pc \in {"l139", "l685"} /\ NumAttempts >= 1
                /\ attempts[NumAttempts] = "path")
               => LegPasses = NumAttempts
  /\ \A k \in 1..Len(log) : log[k].passes = returned
C20_Witness ==
  /\ pc = "done" /\ exit = "success" /\ multi_run /\ iterations >= 1
  /\ outcomes = <<"Failed", "Done">>
  /\ Len(log) = 1 /\ log[1].passes = 5 /\ returned = 5

\* PathTest has returned its trip path and line 685 is next.
LegDone == LegEnded /\ outcomes[Len(outcomes)] = "Done"
\* C21: when PathTest returns a trip path, TripPathBuilder::Build was
\* called exactly once in this leg, on the edges of the last attempt (the
\* one that found the path: no other search lies between them), the trip
\* path returned is the one built, and the path algorithm is cleared; so
\* with and without repeat runs.
C21_BuiltOnceAndCleared ==
  LegDone
    => /\ Cardinality(Calls("Build")) = 1
       /\ \A b \in Calls("Build") :
            /\ b >= 3
            /\ ev[b - 2] = Ev("GetBestPath", "path")
            /\ ev[b - 1].op = "incPasses"
            /\ Cardinality({k \in Calls("GetBestPath") : k < b}) = NumAttempts
       /\ attempts[NumAttempts] = "path"
       /\ trip_path = leg
       /\ ~engine[strategy]
C21_Witness ==
  /\ LegDone /\ multi_run /\ iterations >= 1 /\ NumAttempts = 3
  /\ Cardinality(Calls("GetBestPath")) = 3 + iterations

\* C22: when the first attempt of a leg starts, the path algorithm chosen
\* for it is cleared, also after an earlier leg that used it and failed.
C22_ClearedAtLegStart ==
  pc = "l88" => ~engine[strategy]

\* C23: a record with outcome success is written only when every leg
\* ended Done; in particular, when the PathTest of some leg ended Failed
\* the outcome written is a failure kind.
C23_FailedLegMeansFailure ==
  \A k \in 1..Len(log) :
    (\E j \in 1..Len(outcomes) : outcomes[j] = "Failed")
      => log[k].success # "success"

\* C24: the step that follows a leg whose search threw a runtime_error
\* treats the leg as failed: it builds no directions (the trip figures
\* stay as they were) and records the failure kind that the unreachable
\* flags of the leg's own candidate sets give.
C24_ThrownLegIsFailure ==
  [][ (pc = "l685" /\ outcomes[Len(outcomes)] = "Threw") =>
        LET flagged == tile'.unreachable
            uo == path_location[leg] \cap flagged # {}
            ud == path_location[leg + 1] \cap flagged # {}
        IN  /\ data'.success =
                 CASE uo /\ ud  -> "fail_unreachable_locations"
                   [] uo /\ ~ud -> "fail_unreachable_origin"
                   [] ~uo /\ ud -> "fail_unreachable_dest"
                   [] OTHER     -> "fail_no_route"
            /\ data'.trip_time = data.trip_time
            /\ data'.trip_dist = data.trip_dist
            /\ data'.manuevers = data.manuevers
    ]_vars

\* The outcomes the leg loop can leave in the record of line 753.
LoopOutcomes ==
  {"success", "fail_unreachable_origin", "fail_unreachable_dest",
   "fail_unreachable_locations", "fail_no_route"}
\* Every leg was run and the record of line 753 was written.
RanToTheEnd ==
  /\ Len(outcomes) = nloc - 1
  /\ Len(log) = 1 /\ log[1].success \in LoopOutcomes
====
